---- MODULE Spec2Model ----
(***************************************************************************)
(* billiard/util.py: the finalizer registry (Finalize, _run_finalizers),   *)
(* the after-fork registry (register_after_fork, _run_after_forkers) and   *)
(* the exit handler (_exit_function).                                      *)
(*                                                                         *)
(* Python values are modelled as follows.  None is the empty tuple; an     *)
(* exit priority k is the one-tuple <<k>>, so that a priority can be       *)
(* compared with None; a registry key is the pair <<priority, sequence>>.  *)
(* A Finalize object is identified by the sequence number it drew from     *)
(* _finalizer_counter.  A dict is a function whose DOMAIN is its key set.  *)
(***************************************************************************)
EXTENDS Integers, Sequences, FiniteSets, TLC

\* Bounds of the model.
MaxFin == 2
MaxChildren == 2
MaxSwept == 4
MaxObjects == 2
MaxAfterFork == 4

\* The exit priorities callers pass to Finalize, and the floors callers pass
\* to _run_finalizers (0 is the floor _exit_function passes).
Priorities == {-1, 1}
Floors == {0, 1}

None == <<>>

VARIABLES
    finalizer_registry,  \* _finalizer_registry: key -> Finalize object
    finalizer_counter,   \* _finalizer_counter: the next sequence number
    finalizers,          \* the Finalize objects created so far: their fields
    exiting,             \* _exiting
    calls,               \* per Finalize object: callback executions started
    inflight,            \* the __call__ invocations that are inside the callback:
                         \* <<Finalize object, "run" (explicit) or "weakref">>
    ret,                 \* what the last finished such __call__ gave its caller
    stage,               \* where the main thread is in _exit_function
    pc,                  \* where the main thread is in _run_finalizers
    minpriority,         \* _run_finalizers: its argument
    items,               \* _run_finalizers: the sorted list it iterates
    idx,                 \* _run_finalizers: position of the loop in items
    order,               \* keys whose callback the current sweep executed, in order
    failed,              \* keys whose callback raised in the current sweep
    gone,                \* keys the current sweep found no longer registered
    children,            \* the child processes the process tracks (_children)
    pending,             \* the list of active_children() a pass of _exit_function iterates
    joined,              \* the child processes _exit_function has joined
    exitseq,             \* value of finalizer_counter when _exit_function started
    afterfork_registry,  \* _afterfork_registry: key -> object, a WeakValueDictionary
    afterfork_counter,   \* _afterfork_counter: the next index
    objects,             \* the live objects that were registered: their state
    replayed,            \* keys whose func the last _run_after_forkers called, in order
    raised               \* keys whose func raised in the last _run_after_forkers

finvars == <<finalizer_registry, finalizer_counter, finalizers, calls, inflight, ret>>
sweepvars == <<pc, minpriority, items, idx, order, failed, gone>>
exitvars == <<exiting, stage, children, pending, joined, exitseq>>
forkvars == <<afterfork_registry, afterfork_counter, objects, replayed, raised>>
vars == <<finvars, sweepvars, exitvars, forkvars>>

----------------------------------------------------------------------------
\* Helpers for Python's dict and tuple operations

DictDel(d, k) == [x \in DOMAIN d \ {k} |-> d[x]]

DictSet(d, k, v) == [x \in DOMAIN d \cup {k} |-> IF x = k THEN v ELSE d[x]]

KeyLessOldestLast(a, b) ==
    IF a[1] = b[1] THEN a[2] > b[2]
    ELSE IF a[1] = None THEN TRUE
    ELSE IF b[1] = None THEN FALSE
    ELSE a[1][1] < b[1][1]

\* Python 2 tuple comparison of two keys (priority, sequence); None sorts
\* below every integer.
KeyLess(a, b) ==
    IF a[1] = b[1] THEN a[2] < b[2]
    ELSE IF a[1] = None THEN TRUE
    ELSE IF b[1] = None THEN FALSE
    ELSE a[1][1] < b[1][1]

\* list.sort(reverse=True) on a list of (key, finalizer) pairs with distinct keys
RECURSIVE SortReverse(_)
SortReverse(S) ==
    IF S = {} THEN <<>>
    ELSE LET m == CHOOSE x \in S : \A y \in S \ {x} : KeyLess(y, x)
         IN <<m>> \o SortReverse(S \ {m})

\* The fields __call__ and cancel set to None
Cleared(fin) ==
    [fin EXCEPT !.weakref = None, !.callback = None, !.args = None,
                !.kwargs = None, !.key = None]

----------------------------------------------------------------------------
\* class Finalize

\* The fields Finalize.__init__ sets; hasobj says whether obj is not None
\* (with obj None the attribute _weakref is never set)
NewFinalize(hasobj, key) ==
    [weakref |-> IF hasobj THEN <<"ref">> ELSE <<"unset">>,
     callback |-> <<"callback">>, args |-> <<"args">>,
     kwargs |-> <<"kwargs">>, key |-> key]

AcceptsAnything(hasobj, exitpriority) == TRUE

\* The arguments the assertions of Finalize.__init__ accept
Accepts(hasobj, exitpriority) == hasobj \/ exitpriority # None

\* Finalize.__init__(obj, callback, args, kwargs, exitpriority)
FinalizeInit(hasobj, exitpriority) ==
    /\ finalizer_counter < MaxFin
    /\ Accepts(hasobj, exitpriority)
    /\ LET key == <<exitpriority, finalizer_counter>>
           self == finalizer_counter
       IN /\ finalizers' = DictSet(finalizers, self, NewFinalize(hasobj, key))
          /\ finalizer_registry' = DictSet(finalizer_registry, key, self)
          /\ calls' = DictSet(calls, self, 0)
    /\ finalizer_counter' = finalizer_counter + 1
    /\ UNCHANGED <<inflight, ret, sweepvars, exitvars, forkvars>>

\* still_active()
still_active(self) == finalizers[self].key \in DOMAIN finalizer_registry

CallRemovesByCallback(self) == finalizers[self].callback # None

\* __call__ up to the start of the callback: the del and its KeyError branch.
\* TRUE when the del finds the key, so that the callback is to be executed.
CallRemoves(self) == finalizers[self].key \in DOMAIN finalizer_registry

CallDeletesAfterCallback(registry, key) == registry

\* The registry after the del of __call__ found the key
CallDeleted(registry, key) == DictDel(registry, key)

CallDel(self) ==
    IF CallRemoves(self)
    THEN /\ finalizer_registry' = CallDeleted(finalizer_registry, finalizers[self].key)
         /\ calls' = [calls EXCEPT ![self] = @ + 1]
    ELSE UNCHANGED <<finalizer_registry, calls>>

\* run(): an explicit call of the Finalize object from any thread or callback
Call(self) ==
    /\ self \in DOMAIN finalizers
    /\ CallDel(self)
    /\ IF CallRemoves(self)
       THEN inflight' = inflight \cup {<<self, "run">>} /\ ret' = ret
       ELSE inflight' = inflight /\ ret' = <<self, "None">>
    /\ UNCHANGED <<finalizer_counter, finalizers, sweepvars, exitvars, forkvars>>

\* The target becomes unreachable: the weak reference dies and calls self(wr)
WeakrefCallback(self) ==
    /\ self \in DOMAIN finalizers
    /\ finalizers[self].weakref = <<"ref">>
    /\ finalizers' = [finalizers EXCEPT ![self].weakref = <<"dead">>]
    /\ CallDel(self)
    /\ IF CallRemoves(self)
       THEN inflight' = inflight \cup {<<self, "weakref">>} /\ ret' = ret
       ELSE inflight' = inflight /\ ret' = <<self, "None">>
    /\ UNCHANGED <<finalizer_counter, sweepvars, exitvars, forkvars>>

\* The callback of a run() or weak-reference invocation returns: the fields
\* are cleared and the callback's result is returned
CallReturn(self, how) ==
    /\ <<self, how>> \in inflight
    /\ inflight' = inflight \ {<<self, how>>}
    /\ finalizers' = [finalizers EXCEPT ![self] = Cleared(@)]
    /\ ret' = <<self, "result">>
    /\ UNCHANGED <<finalizer_registry, finalizer_counter, calls, sweepvars, exitvars, forkvars>>

CallRaiseSwallowed(self) == <<self, "None">>

\* What the caller of __call__ gets when the callback raises: there is no
\* try around the callback, so the exception
CallRaiseGives(self) == <<self, "exception">>

\* The callback of a run() or weak-reference invocation raises: __call__
\* catches nothing, the exception leaves it
CallRaise(self, how) ==
    /\ <<self, how>> \in inflight
    /\ inflight' = inflight \ {<<self, how>>}
    /\ ret' = CallRaiseGives(self)
    /\ UNCHANGED <<finalizer_registry, finalizer_counter, finalizers, calls,
                   sweepvars, exitvars, forkvars>>

CancelKeepsEntry(registry, key) == registry

\* The registry after the del of cancel()
CancelDel(registry, key) == DictDel(registry, key)

\* cancel()
cancel(self) ==
    /\ self \in DOMAIN finalizers
    /\ IF finalizers[self].key \in DOMAIN finalizer_registry
       THEN /\ finalizer_registry' = CancelDel(finalizer_registry, finalizers[self].key)
            /\ finalizers' = [finalizers EXCEPT ![self] = Cleared(@)]
       ELSE UNCHANGED <<finalizer_registry, finalizers>>
    /\ UNCHANGED <<finalizer_counter, calls, inflight, ret, sweepvars, exitvars, forkvars>>

----------------------------------------------------------------------------
\* _run_finalizers(minpriority), run by the main thread

SelectsWithoutFloor(mp, key) == key[1] # None

\* The filter f: the entries a sweep with floor mp selects
Selects(mp, key) ==
    IF mp = None
    THEN key[1] # None
    ELSE key[1] # None /\ key[1][1] >= mp[1]

\* items = [x for x in _finalizer_registry.items() if f(x)]; items.sort(reverse=True)
SweepItems(mp) ==
    LET keys == SortReverse({k \in DOMAIN finalizer_registry : Selects(mp, k)})
    IN [i \in 1..Len(keys) |-> <<keys[i], finalizer_registry[keys[i]]>>]

\* Entry of _run_finalizers up to the loop
SweepBegin(mp) ==
    /\ minpriority' = mp
    /\ items' = SweepItems(mp)
    /\ idx' = 1
    /\ order' = <<>>
    /\ failed' = {}
    /\ gone' = {}
    /\ pc' = "loop"

\* A direct call _run_finalizers(mp) outside _exit_function
run_finalizers(mp) ==
    /\ stage = "running"
    /\ pc = "idle"
    /\ SweepBegin(mp)
    /\ UNCHANGED <<finvars, exitvars, forkvars>>

AfterGoneLeaveLoop(i) == Len(items) + 1

\* Where the loop continues after it called a finalizer that was no longer
\* registered: __call__ catches the KeyError itself and returns None
AfterGone(i) == i + 1

\* The loop calls finalizer(): the del of __call__ and its KeyError branch
SweepCall ==
    /\ pc = "loop"
    /\ idx <= Len(items)
    /\ LET key == items[idx][1]
           finalizer == items[idx][2]
       IN /\ CallDel(finalizer)
          /\ IF CallRemoves(finalizer)
             THEN /\ pc' = "callback"
                  /\ order' = Append(order, key)
                  /\ UNCHANGED <<idx, gone>>
             ELSE /\ idx' = AfterGone(idx)
                  /\ gone' = gone \cup {key}
                  /\ UNCHANGED <<pc, order>>
    /\ UNCHANGED <<finalizer_counter, finalizers, inflight, ret, minpriority,
                   items, failed, exitvars, forkvars>>

\* The callback of the finalizer the loop called returns
SweepCallbackReturn ==
    /\ pc = "callback"
    /\ finalizers' = [finalizers EXCEPT ![items[idx][2]] = Cleared(@)]
    /\ idx' = idx + 1
    /\ pc' = "loop"
    /\ UNCHANGED <<finalizer_registry, finalizer_counter, calls, inflight, ret,
                   minpriority, items, order, failed, gone, exitvars, forkvars>>

AfterExceptionLeaveLoop(i) == Len(items) + 1

\* Where the loop continues after the callback it called raised: the
\* except clause catches the exception and the loop goes on
AfterException(i) == i + 1

\* The callback of the finalizer the loop called raises
SweepCallbackRaise ==
    /\ pc = "callback"
    /\ failed' = failed \cup {items[idx][1]}
    /\ idx' = AfterException(idx)
    /\ pc' = "loop"
    /\ UNCHANGED <<finvars, minpriority, items, order, gone, exitvars, forkvars>>

AfterSweepNoClear(mp, registry) == registry

AfterSweepKeepsLate(mp, registry) ==
    IF mp = None
    THEN [k \in {x \in DOMAIN registry : x[1] # None} |-> registry[k]]
    ELSE registry

\* What the end of _run_finalizers leaves in the registry
AfterSweep(mp, registry) == IF mp = None THEN <<>> ELSE registry

\* The stage of _exit_function that follows the return of a sweep
StageAfterSweep ==
    CASE stage = "first" -> "terminate"
      [] stage = "final" -> "terminated"
      [] OTHER -> stage

\* The loop is over: the clear of a sweep with no floor, and the return, which
\* ends the life of the locals
SweepEnd ==
    /\ pc = "loop"
    /\ idx > Len(items)
    /\ finalizer_registry' = AfterSweep(minpriority, finalizer_registry)
    /\ pc' = "idle"
    /\ minpriority' = None
    /\ items' = <<>>
    /\ idx' = 1
    /\ order' = <<>>
    /\ failed' = {}
    /\ gone' = {}
    /\ stage' = StageAfterSweep
    /\ UNCHANGED <<finalizer_counter, finalizers, calls, inflight, ret, exiting,
                   children, pending, joined, exitseq, forkvars>>

----------------------------------------------------------------------------
\* is_exiting()
is_exiting == exiting = "True" \/ exiting = "None"

\* The tracked child processes after the _cleanup() of active_children(),
\* which drops the ones that have exited
Cleanup(tracked) == [p \in {q \in DOMAIN tracked : tracked[q].alive} |-> tracked[p]]

\* The child processes a program can have when _exit_function starts
Populations ==
    UNION {[1..n -> [daemonic : BOOLEAN, alive : {TRUE}, terminated : {FALSE}]] :
              n \in 0..MaxChildren}

FirstFloorBelowZero == <<-1>>

\* The floor of the first sweep of _exit_function
FirstFloor == <<0>>

\* _exit_function up to the loop of its first sweep, _run_finalizers(0).
\* The function declares _exiting global and never assigns it.
exit_function ==
    /\ stage = "running"
    /\ pc = "idle"
    /\ stage' = "first"
    /\ exitseq' = finalizer_counter
    /\ children' \in Populations
    /\ SweepBegin(FirstFloor)
    /\ UNCHANGED <<finvars, exiting, pending, joined, forkvars>>

\* p._popen.terminate() for the daemonic ones of a list of children
Terminated(tracked) ==
    [p \in DOMAIN tracked |->
        [tracked[p] EXCEPT !.terminated = tracked[p].daemonic]]

\* The first loop over active_children(): terminate() for each daemonic child
TerminatePass ==
    /\ stage = "terminate"
    /\ children' = Terminated(Cleanup(children))
    /\ stage' = "list"
    /\ UNCHANGED <<finvars, sweepvars, exiting, pending, joined, exitseq, forkvars>>

\* The second call of active_children()
JoinList ==
    /\ stage = "list"
    /\ children' = Cleanup(children)
    /\ pending' = DOMAIN Cleanup(children)
    /\ stage' = "join"
    /\ UNCHANGED <<finvars, sweepvars, exiting, joined, exitseq, forkvars>>

\* p.join() blocks until the child has exited
JoinReturns(child) == ~child.alive

\* p.join() returns for a child of the list: it blocks until p has exited,
\* and p is no longer tracked
Join(p) ==
    /\ stage = "join"
    /\ p \in pending
    /\ JoinReturns(children[p])
    /\ children' = DictDel(children, p)
    /\ pending' = pending \ {p}
    /\ joined' = DictSet(joined, p, children[p])
    /\ UNCHANGED <<finvars, sweepvars, exiting, stage, exitseq, forkvars>>

FinalFloorZero == <<0>>

\* The floor of the final sweep of _exit_function: none
FinalFloor == None

\* The second loop is over: the final sweep, _run_finalizers(), up to its loop
FinalSweep ==
    /\ stage = "join"
    /\ pending = {}
    /\ stage' = "final"
    /\ SweepBegin(FinalFloor)
    /\ UNCHANGED <<finvars, exiting, children, pending, joined, exitseq, forkvars>>

\* Another thread starts a child process before the second call of
\* active_children() (one started later is in neither list)
Start(daemonic) ==
    /\ stage \in {"first", "terminate", "list"}
    /\ \E p \in (1..MaxChildren) \ DOMAIN children :
          /\ \A q \in (1..MaxChildren) \ DOMAIN children : p <= q
          /\ children' = DictSet(children, p, [daemonic |-> daemonic, alive |-> TRUE,
                                               terminated |-> FALSE])
    /\ UNCHANGED <<finvars, sweepvars, exiting, stage, pending, joined, exitseq, forkvars>>

\* A child process exits, before the second call of active_children() or
\* while the second loop has it in its list
ChildExit(p) ==
    /\ stage \in {"first", "terminate", "list"} \/ (stage = "join" /\ p \in pending)
    /\ p \in DOMAIN children
    /\ children[p].alive
    /\ children' = [children EXCEPT ![p].alive = FALSE]
    /\ UNCHANGED <<finvars, sweepvars, exiting, stage, pending, joined, exitseq, forkvars>>

----------------------------------------------------------------------------
\* The after-fork registry.  An after-fork key is <<index, id(obj), func>>;
\* an object is identified by its id.

\* Python tuple comparison of two after-fork keys: the indices are distinct,
\* so the comparison never reaches func
AfterForkLess(a, b) == a[1] < b[1] \/ (a[1] = b[1] /\ a[2] < b[2])

\* items.sort() on the list of (key, obj) pairs: the keys are distinct, so
\* the comparison of two pairs is the comparison of their keys
RECURSIVE SortItems(_)
SortItems(S) ==
    IF S = {} THEN <<>>
    ELSE LET m == CHOOSE x \in S : \A y \in S \ {x} : AfterForkLess(x[1], y[1])
         IN <<m>> \o SortItems(S \ {m})

RegisteredOncePerFunc(registry, counter, obj, func) ==
    LET others == {k \in DOMAIN registry : ~(k[2] = obj /\ k[3] = func)}
    IN [k \in others \cup {<<counter, obj, func>>} |-> k[2]]

\* register_after_fork(obj, func) applied to a registry and a counter
Registered(registry, counter, obj, func) == DictSet(registry, <<counter, obj, func>>, obj)

\* register_after_fork(obj, func) for an object of the caller, with a func of
\* the caller that returns ("reinit") or raises ("raises")
register_after_fork(obj, func) ==
    /\ afterfork_counter < MaxAfterFork
    /\ obj \in 1..MaxObjects
    /\ obj \in DOMAIN objects => objects[obj].cls = "object"
    /\ objects' = DictSet(objects, obj, [cls |-> "object", state |-> "any"])
    /\ afterfork_registry' = Registered(afterfork_registry, afterfork_counter, obj, func)
    /\ afterfork_counter' = afterfork_counter + 1
    /\ UNCHANGED <<finvars, sweepvars, exitvars, replayed, raised>>

\* ForkAwareThreadLock(): a new object with a new lock, registered with its __init__
ForkAwareThreadLockInit(self) ==
    /\ afterfork_counter < MaxAfterFork
    /\ self \in (1..MaxObjects) \ DOMAIN objects
    /\ objects' = DictSet(objects, self, [cls |-> "ForkAwareThreadLock", state |-> "unlocked"])
    /\ afterfork_registry' = Registered(afterfork_registry, afterfork_counter, self,
                                        "ForkAwareThreadLock.__init__")
    /\ afterfork_counter' = afterfork_counter + 1
    /\ UNCHANGED <<finvars, sweepvars, exitvars, replayed, raised>>

\* ForkAwareLocal(): a new thread-local object, registered with the lambda
\* that clears its __dict__
ForkAwareLocalInit(self) ==
    /\ afterfork_counter < MaxAfterFork
    /\ self \in (1..MaxObjects) \ DOMAIN objects
    /\ objects' = DictSet(objects, self, [cls |-> "ForkAwareLocal", state |-> "empty"])
    /\ afterfork_registry' = Registered(afterfork_registry, afterfork_counter, self,
                                        "ForkAwareLocal.clear")
    /\ afterfork_counter' = afterfork_counter + 1
    /\ UNCHANGED <<finvars, sweepvars, exitvars, replayed, raised>>

\* A registered object is reclaimed: the WeakValueDictionary drops its entries
ObjectDies(obj) ==
    /\ obj \in DOMAIN objects
    /\ objects' = DictDel(objects, obj)
    /\ afterfork_registry' =
          [k \in {x \in DOMAIN afterfork_registry : afterfork_registry[x] # obj}
              |-> afterfork_registry[k]]
    /\ UNCHANGED <<finvars, sweepvars, exitvars, afterfork_counter, replayed, raised>>

\* One turn of the loop of _run_after_forkers, on the state st it has reached:
\* func(obj) inside the try, item being <<key, obj>>
Reinitialize(st, item) ==
    LET key == item[1]
        obj == item[2]
        func == key[3]
        called == [st EXCEPT !.replayed = Append(@, key)]
    IN CASE func = "ForkAwareThreadLock.__init__" ->
              [called EXCEPT
                  !.objects = [@ EXCEPT ![obj].state = "unlocked"],
                  !.registry = Registered(@, st.counter, obj, func),
                  !.counter = @ + 1]
         [] func = "ForkAwareLocal.clear" ->
              [called EXCEPT !.objects = [@ EXCEPT ![obj].state = "empty"]]
         [] func = "raises" ->
              [called EXCEPT !.raised = @ \cup {key}]
         [] OTHER -> called

AfterTurnStopsAtRaise(list, i) ==
    IF list[i][1][3] = "raises" THEN Len(list) + 1 ELSE i + 1

\* The position of the loop of _run_after_forkers after the turn of list[i]:
\* the except clause is inside the loop, so the next item follows whether
\* func(obj) returned or raised
AfterTurn(list, i) == i + 1

\* The loop of _run_after_forkers over items from position i
RECURSIVE Replay(_, _, _)
Replay(st, list, i) ==
    IF i > Len(list) THEN st
    ELSE Replay(Reinitialize(st, list[i]), list, AfterTurn(list, i))

\* items = list(_afterfork_registry.items()); items.sort()
AfterForkItems ==
    SortItems({<<k, afterfork_registry[k]>> : k \in DOMAIN afterfork_registry})

\* _run_after_forkers()
run_after_forkers ==
    /\ afterfork_counter
          + Cardinality({k \in DOMAIN afterfork_registry :
                            k[3] = "ForkAwareThreadLock.__init__"}) <= MaxAfterFork
    /\ LET st == Replay([registry |-> afterfork_registry, counter |-> afterfork_counter,
                         objects |-> objects, replayed |-> <<>>, raised |-> {}],
                        AfterForkItems, 1)
       IN /\ afterfork_registry' = st.registry
          /\ afterfork_counter' = st.counter
          /\ objects' = st.objects
          /\ replayed' = st.replayed
          /\ raised' = st.raised
    /\ UNCHANGED <<finvars, sweepvars, exitvars>>

----------------------------------------------------------------------------
\* The exit priorities a caller can pass
ExitPriorities == {None} \cup {<<k>> : k \in Priorities}

\* The state of a program that has created up to n finalizers, all of them
\* registered, and nothing else
Created(n) ==
    /\ \E m \in 0..n :
       \E args \in [0..(m - 1) ->
                      {a \in BOOLEAN \X ExitPriorities : Accepts(a[1], a[2])}] :
          /\ finalizers = [f \in 0..(m - 1) |-> NewFinalize(args[f][1], <<args[f][2], f>>)]
          /\ finalizer_registry =
                [k \in {<<args[f][2], f>> : f \in 0..(m - 1)} |-> k[2]]
          /\ finalizer_counter = m
          /\ calls = [f \in 0..(m - 1) |-> 0]
    /\ inflight = {}
    /\ ret = None
    /\ exiting = "False"
    /\ stage = "running"
    /\ pc = "idle"
    /\ minpriority = None
    /\ items = <<>>
    /\ idx = 1
    /\ order = <<>>
    /\ failed = {}
    /\ gone = {}
    /\ children = <<>>
    /\ pending = {}
    /\ joined = <<>>
    /\ exitseq = 0
    /\ afterfork_registry = <<>>
    /\ afterfork_counter = 0
    /\ objects = <<>>
    /\ replayed = <<>>
    /\ raised = {}

\* The state after the module is imported
Init == Created(0)

Next ==
    \/ \E hasobj \in BOOLEAN, p \in ExitPriorities : FinalizeInit(hasobj, p)
    \/ \E f \in DOMAIN finalizers : Call(f)
    \/ \E f \in DOMAIN finalizers : WeakrefCallback(f)
    \/ \E f \in DOMAIN finalizers, how \in {"run", "weakref"} : CallReturn(f, how)
    \/ \E f \in DOMAIN finalizers, how \in {"run", "weakref"} : CallRaise(f, how)
    \/ \E f \in DOMAIN finalizers : cancel(f)
    \/ \E mp \in {None} \cup {<<k>> : k \in Floors} : run_finalizers(mp)
    \/ SweepCall
    \/ SweepCallbackReturn
    \/ SweepCallbackRaise
    \/ SweepEnd

\* The threads of a program that create, run and cancel finalizers while the
\* main thread runs sweeps
Spec == Init /\ [][Next]_vars

SweepInit == Created(MaxSwept)

SweepNext ==
    \/ \E mp \in {None} \cup {<<k>> : k \in Floors} : run_finalizers(mp)
    \/ SweepCall
    \/ SweepCallbackReturn
    \/ SweepCallbackRaise
    \/ SweepEnd
    \/ \E f \in DOMAIN finalizers : cancel(f)

\* Sweeps over the finalizers a program has created, while other threads
\* cancel finalizers
SweepSpec == SweepInit /\ [][SweepNext]_vars

ExitNext ==
    \/ exit_function
    \/ SweepCall
    \/ SweepCallbackReturn
    \/ SweepCallbackRaise
    \/ SweepEnd
    \/ TerminatePass
    \/ JoinList
    \/ \E p \in DOMAIN children : Join(p)
    \/ FinalSweep
    \/ \E d \in BOOLEAN : Start(d)
    \/ \E p \in DOMAIN children : ChildExit(p)
    \/ \E hasobj \in BOOLEAN, p \in ExitPriorities : FinalizeInit(hasobj, p)
    \/ \E f \in DOMAIN finalizers : cancel(f)

\* _exit_function, while child processes start and exit and other threads
\* create and cancel finalizers
ExitSpec == Init /\ [][ExitNext]_vars

\* _exit_function on a main thread that keeps running: each of its steps is
\* taken when it can be, a callback the sweep called comes back, and join()
\* returns once the child has exited.  Nothing is assumed about the children.
ExitFairSpec ==
    /\ Init /\ [][ExitNext]_vars
    /\ WF_vars(SweepCall)
    /\ WF_vars(SweepCallbackReturn \/ SweepCallbackRaise)
    /\ WF_vars(SweepEnd)
    /\ WF_vars(TerminatePass)
    /\ WF_vars(JoinList)
    /\ WF_vars(\E p \in DOMAIN children : Join(p))
    /\ WF_vars(FinalSweep)

\* The after-fork registry alone
ForkNext ==
    \/ \E obj \in 1..MaxObjects, func \in {"reinit", "raises"} :
          register_after_fork(obj, func)
    \/ \E obj \in 1..MaxObjects : ForkAwareThreadLockInit(obj)
    \/ \E obj \in 1..MaxObjects : ForkAwareLocalInit(obj)
    \/ \E obj \in DOMAIN objects : ObjectDies(obj)
    \/ run_after_forkers

ForkSpec == Init /\ [][ForkNext]_vars

----------------------------------------------------------------------------
\* An invocation of the Finalize object self: an explicit run(), the weak
\* reference's trigger, or the call a sweep makes
Invocation(self) ==
    \/ Call(self)
    \/ WeakrefCallback(self)
    \/ SweepCall /\ items[idx][2] = self

\* C1: over any sequence of invocations of a finalizer the callback executes
\* at most once: an invocation that finds the finalizer registered starts its
\* first execution, whose result the invocation returns; every other
\* invocation starts no execution, changes nothing of the registry and
\* returns None.
C1_AtMostOnce ==
    /\ [](\A f \in DOMAIN finalizers : calls[f] <= 1)
    /\ [][\A f \in DOMAIN finalizers :
            /\ Invocation(f) /\ still_active(f)
                  => calls[f] = 0 /\ calls'[f] = 1
            /\ Invocation(f) /\ ~still_active(f)
                  => /\ calls' = calls
                     /\ finalizer_registry' = finalizer_registry
                     /\ inflight' = inflight
                     /\ ~SweepCall => ret' = <<f, "None">>
            /\ (\E how \in {"run", "weakref"} : CallReturn(f, how))
                  => calls[f] = 1 /\ ret' = <<f, "result">>
            /\ calls'[f] # calls[f] => Invocation(f)]_vars

\* C1: a finalizer whose callback was executed once has been invoked again,
\* and that invocation returned None
C1_Witness ==
    \E f \in DOMAIN finalizers : calls[f] = 1 /\ ret = <<f, "None">>

----------------------------------------------------------------------------
\* The steps of _exit_function's timeline

\* The position of a stage of _exit_function in its text
Rank(st) ==
    CASE st = "running" -> 0
      [] st = "first" -> 1
      [] st = "terminate" -> 2
      [] st = "list" -> 3
      [] st = "join" -> 4
      [] st = "final" -> 5
      [] st = "terminated" -> 6

\* A sweep step that starts the callback of the finalizer it has reached
SweepExecutes == SweepCall /\ calls' # calls

\* A step that calls terminate() on a child
TerminateRequest ==
    \E p \in DOMAIN children' : /\ children'[p].terminated
                                /\ p \in DOMAIN children => ~children[p].terminated

\* The keys with priority >= 0 of finalizers created before _exit_function started
EarlyNonNegative ==
    {k \in DOMAIN finalizer_registry : k[1] # None /\ k[1][1] >= 0 /\ k[2] < exitseq}

\* C2: the phases of _exit_function occur in order.  A sweep of
\* _exit_function executes a finalizer of priority >= 0 that was registered
\* when it started only in the first sweep; terminate() is called only after
\* the first sweep, when no such finalizer is registered any more, and before
\* any join; a child is joined only in the second loop; a finalizer of
\* priority < 0 is executed by a sweep only in the final sweep, when every
\* child of the second list has been joined; and the stages never go back.
C2_PhaseOrder ==
    [][/\ Rank(stage') >= Rank(stage)
       /\ SweepExecutes /\ items[idx][1][1][1] >= 0 /\ items[idx][1][2] < exitseq
             => stage = "first" /\ joined = <<>>
                /\ \A p \in DOMAIN children : ~children[p].terminated
       /\ TerminateRequest
             => stage = "terminate" /\ EarlyNonNegative = {} /\ joined = <<>>
       /\ joined' # joined
             => stage = "join" /\ stage' = "join"
       /\ SweepExecutes /\ items[idx][1][1][1] < 0
             => stage = "final" /\ pending = {}
                /\ \A p \in DOMAIN children : ~children[p].alive]_vars

\* C2: the final sweep executes a finalizer of priority < 0 after the first
\* sweep executed one of priority >= 0, a daemonic child was terminated and
\* joined, and a non-daemonic child was joined
C2_Witness ==
    /\ stage = "final"
    /\ pc = "callback"
    /\ items[idx][1][1][1] < 0
    /\ \E f \in DOMAIN finalizers : f < exitseq /\ calls[f] = 1 /\ f # items[idx][2]
    /\ \E p, q \in DOMAIN joined :
          /\ joined[p].daemonic /\ joined[p].terminated
          /\ ~joined[q].daemonic

----------------------------------------------------------------------------
\* Sweeps

\* Key a comes before key b in a sweep: higher priority first and, at equal
\* priority, the later created (higher sequence) first
RunsBefore(a, b) ==
    \/ a[1][1] > b[1][1]
    \/ a[1][1] = b[1][1] /\ a[2] > b[2]

\* C3: a sweep executes finalizers in descending priority order and, at equal
\* priority, in reverse order of creation; it never executes a finalizer
\* whose priority is None.
C3_SweepOrder ==
    /\ \A i \in 1..Len(order) : order[i][1] # None
    /\ \A i, j \in 1..Len(order) : i < j => RunsBefore(order[i], order[j])

\* C3: a sweep has executed, in this order, the second created of two
\* finalizers of equal priority, the first created of them, and one of lower
\* priority, while a finalizer of priority None stays registered
C3_Witness ==
    /\ Len(order) = 3
    /\ order[1][1] = order[2][1] /\ order[1][2] > order[2][2]
    /\ order[2][1][1] > order[3][1][1]
    /\ \E k \in DOMAIN finalizer_registry : k[1] = None

\* A step taken by the main thread inside _run_finalizers or entering it
MainStep ==
    \/ \E mp \in {None} \cup {<<k>> : k \in Floors} : run_finalizers(mp)
    \/ SweepCall
    \/ SweepCallbackReturn
    \/ SweepCallbackRaise
    \/ SweepEnd

\* The registered keys a sweep with floor mp is not to touch
BelowFloor(mp) ==
    {k \in DOMAIN finalizer_registry : k[1] = None \/ k[1][1] < mp[1]}

\* C4: a sweep with floor k executes only finalizers whose priority is set
\* and >= k, and no step of it, its return included, removes, executes or
\* changes a registered finalizer whose priority is None or < k.
C4_Floor ==
    [][/\ SweepExecutes /\ minpriority # None
             => items[idx][1][1] # None /\ items[idx][1][1][1] >= minpriority[1]
       /\ MainStep /\ minpriority' # None
             => \A k \in BelowFloor(minpriority') :
                   /\ k \in DOMAIN finalizer_registry'
                   /\ finalizers'[k[2]] = finalizers[k[2]]
                   /\ calls'[k[2]] = 0
       /\ MainStep /\ minpriority # None
             => \A k \in BelowFloor(minpriority) :
                   /\ k \in DOMAIN finalizer_registry'
                   /\ finalizers'[k[2]] = finalizers[k[2]]
                   /\ calls'[k[2]] = 0]_vars

\* C4: a sweep with a floor is over, it executed a finalizer, and one of
\* lower priority and one of priority None are still registered
C4_Witness ==
    /\ pc = "loop"
    /\ idx > Len(items)
    /\ minpriority # None
    /\ order # <<>>
    /\ \E k \in DOMAIN finalizer_registry : k[1] = None
    /\ \E k \in DOMAIN finalizer_registry : k[1] # None /\ k[1][1] < minpriority[1]

\* The keys of the list of a sweep up to the finalizer it has called last,
\* without the ones it found no longer registered
CalledAndFound ==
    LET reached == IF pc = "callback" THEN idx ELSE idx - 1
    IN SelectSeq([i \in 1..reached |-> items[i][1]], LAMBDA k : k \notin gone)

\* C5: when a callback raises in a sweep the exception is caught and the
\* loop goes on with the next finalizer of its list: at every point of the
\* loop, and so when it is over, the sweep has executed, in the order of its
\* list, every finalizer of the list it has reached and found registered,
\* whichever callbacks raised.
C5_SweepContinues ==
    /\ [](pc # "idle" => order = CalledAndFound)
    /\ [][pc = "callback" /\ pc' # "callback"
             => pc' = "loop" /\ idx' = idx + 1 /\ items' = items]_vars

\* C5: a sweep is over in which a callback raised and the sweep executed a
\* later finalizer of its list
C5_Witness ==
    /\ pc = "loop"
    /\ idx > Len(items)
    /\ \E i, j \in 1..Len(order) : i < j /\ order[i] \in failed /\ order[j] \notin failed

\* The sweep with no floor returns
FinalSweepReturns == pc = "loop" /\ pc' = "idle" /\ minpriority = None

\* C10: when a sweep with no floor returns, the registry is empty: every
\* finalizer of its list was executed or found removed, and the entries
\* that were still registered (the ones with priority None among them) are
\* removed without their callback having been executed.
C10_FinalSweepClears ==
    [][FinalSweepReturns
          => /\ DOMAIN finalizer_registry' = {}
             /\ \A i \in 1..Len(items) :
                   items[i][1] \in gone \/ \E j \in 1..Len(order) : order[j] = items[i][1]
             /\ \A k \in DOMAIN finalizer_registry :
                   calls[k[2]] = 0 /\ calls'[k[2]] = 0]_vars

\* C10: a sweep with no floor has returned and left the registry empty; it
\* executed a finalizer whose callback raised, and it removed a finalizer of
\* priority None whose callback was never executed
C10_Witness ==
    /\ pc = "idle"
    /\ DOMAIN finalizer_registry = {}
    /\ \E f \in DOMAIN finalizers :
          finalizers[f].key # None /\ finalizers[f].key[1] # None /\ calls[f] = 1
    /\ \E f \in DOMAIN finalizers :
          finalizers[f].key # None /\ finalizers[f].key[1] = None /\ calls[f] = 0

----------------------------------------------------------------------------
\* cancel() and the weak reference

\* C6: cancel() never raises and never executes the callback: it leaves the
\* registry without the entry and the number of executions unchanged, and
\* on a finalizer that is no longer registered it changes nothing; once a
\* finalizer was cancelled before any execution, no invocation executes it.
C6_CancelIdempotent ==
    /\ [](\A f \in DOMAIN finalizers : ENABLED cancel(f))
    /\ [][\A f \in DOMAIN finalizers :
            /\ cancel(f)
                  => /\ calls' = calls
                     /\ inflight' = inflight
                     /\ calls[f] <= 1
                     /\ finalizers[f].key \notin DOMAIN finalizer_registry'
                     /\ ~still_active(f)'
                     /\ ~still_active(f) => UNCHANGED vars
            /\ finalizers[f].key = None /\ calls[f] = 0
                  => calls'[f] = 0 /\ finalizers'[f].key = None]_vars

\* C6: a finalizer was cancelled before any execution and then invoked: the
\* invocation returned None and executed nothing
C6_Witness ==
    \E f \in DOMAIN finalizers :
        finalizers[f].key = None /\ calls[f] = 0 /\ ret = <<f, "None">>

\* C7 as claimed: whenever the target of a finalizer that was neither run
\* nor cancelled becomes unreachable, the callback is executed, also after a
\* sweep has run.
C7_TargetDeathAlwaysRuns ==
    [][\A f \in DOMAIN finalizers :
          WeakrefCallback(f) /\ calls[f] = 0 /\ finalizers[f].key # None
             => calls'[f] = 1]_vars

\* C7: when the target of a finalizer becomes unreachable, the callback is
\* executed, with no explicit call, if the finalizer is still registered (as
\* it is after a sweep with a floor that did not select it), and is not
\* executed if it is not (as after a sweep with no floor, whose clear removed
\* it unexecuted); in both cases still_active() is false from then on.
C7_TargetDeath ==
    /\ [](\A f \in DOMAIN finalizers :
            finalizers[f].weakref \in {<<"dead">>, None} => ~still_active(f))
    /\ [][\A f \in DOMAIN finalizers :
            WeakrefCallback(f)
               => IF still_active(f)
                  THEN calls[f] = 0 /\ calls'[f] = 1 /\ <<f, "weakref">> \in inflight'
                  ELSE calls' = calls /\ inflight' = inflight]_vars

\* C7: the callback of a finalizer of priority None is being executed
\* because its target became unreachable
C7_Witness ==
    \E f \in DOMAIN finalizers :
        /\ <<f, "weakref">> \in inflight
        /\ finalizers[f].key[1] = None
        /\ finalizers[f].weakref = <<"dead">>
        /\ calls[f] = 1

----------------------------------------------------------------------------
\* The after-fork replay

\* C8: a replay invokes the reinitializer of every entry of the after-fork
\* registry, each once, in the order of registration; every entry's object
\* is alive; the reinitializers that raise are invoked like the others and
\* those registered after them are invoked too.
C8_ReplayOrder ==
    /\ [](\A k \in DOMAIN afterfork_registry :
            afterfork_registry[k] = k[2] /\ k[2] \in DOMAIN objects)
    /\ [][run_after_forkers
            => /\ {replayed'[i] : i \in 1..Len(replayed')} = DOMAIN afterfork_registry
               /\ Len(replayed') = Cardinality(DOMAIN afterfork_registry)
               /\ \A i, j \in 1..Len(replayed') :
                     i < j => replayed'[i][1] < replayed'[j][1]
               /\ raised' = {k \in DOMAIN afterfork_registry : k[3] = "raises"}]_vars

\* C8: a replay invoked three reinitializers, the second of which raised
C8_Witness ==
    /\ Len(replayed) = 3
    /\ replayed[2] \in raised
    /\ replayed[3] \notin raised

----------------------------------------------------------------------------
\* The exiting flag

\* C9: is_exiting() returns false before _exit_function starts and true
\* from the moment it has started, during the sweeps and the joins and
\* after the sequence has finished.
C9_ExitingFlag == is_exiting <=> stage # "running"

----------------------------------------------------------------------------
\* A callback that raises in a direct run()

\* C11: when the callback of a direct run() raises, the caller gets the
\* exception; the entry was removed before the callback started, so
\* still_active() is false then and afterwards, and no later run() or sweep
\* executes the callback again.
C11_RaisePropagates ==
    /\ [](\A f \in DOMAIN finalizers :
            ret = <<f, "exception">> => ~still_active(f) /\ calls[f] = 1)
    /\ [][\A f \in DOMAIN finalizers :
            /\ CallRaise(f, "run")
                  => /\ ret' = <<f, "exception">>
                     /\ ~still_active(f) /\ ~still_active(f)'
                     /\ finalizer_registry' = finalizer_registry
            /\ calls[f] = 1 /\ <<f, "run">> \notin inflight
                  => calls'[f] = 1 /\ ~still_active(f)']_vars

\* C11: the callback of a direct run() raised, the fields of the finalizer
\* were left as they were, and a sweep that had selected the finalizer found
\* it no longer registered
C11_Witness ==
    \E f \in DOMAIN finalizers :
        /\ ret = <<f, "exception">>
        /\ finalizers[f].key # None
        /\ finalizers[f].weakref # <<"dead">>
        /\ pc = "loop"
        /\ finalizers[f].key \in gone

----------------------------------------------------------------------------
\* A sweep and another thread on the same finalizer

\* The keys of the finalizers the current sweep executed
Executed == {order[i] : i \in 1..Len(order)}

\* C12: while a sweep runs and other threads call run() or cancel() on the
\* finalizers it selected, no callback is executed twice and none after
\* a cancel() that came first; calling a finalizer that has disappeared
\* just moves the sweep to its next item; and when the sweep returns, each
\* selected finalizer was executed by the sweep, or executed by the other
\* thread, or cancelled.
C12_SweepWithOtherThread ==
    /\ [](\A f \in DOMAIN finalizers : calls[f] <= 1)
    /\ [](pc = "loop" /\ idx <= Len(items) => ENABLED SweepCall)
    /\ [][/\ SweepCall /\ ~still_active(items[idx][2])
                => pc' = "loop" /\ idx' = idx + 1 /\ calls' = calls
          /\ pc = "loop" /\ pc' = "idle"
                => \A i \in 1..Len(items) :
                      LET key == items[i][1]
                          f == items[i][2]
                      IN \/ key \in Executed /\ calls[f] = 1
                         \/ key \in gone /\ calls[f] = 1
                         \/ key \in gone /\ calls[f] = 0 /\ finalizers[f].key = None
          /\ \A f \in DOMAIN finalizers :
                finalizers[f].key = None /\ calls[f] = 0 => calls'[f] = 0]_vars

\* C12: a sweep selected two finalizers; it found one gone, which another
\* thread is executing, and it executed the other
C12_Witness ==
    /\ pc = "loop"
    /\ Len(items) = 2
    /\ idx > Len(items)
    /\ \E f \in DOMAIN finalizers :
          finalizers[f].key \in gone /\ <<f, "run">> \in inflight /\ calls[f] = 1
    /\ Len(order) = 1

----------------------------------------------------------------------------
\* Replays of the after-fork registry

\* C13: a replay removes no entry; an entry leaves the registry only when
\* its object dies; and a replay invokes again, in the same relative order,
\* every entry the previous replay invoked that is still registered.
C13_ReplayKeeps ==
    [][/\ \A k \in DOMAIN afterfork_registry :
             k \notin DOMAIN afterfork_registry' => ObjectDies(k[2])
       /\ run_after_forkers
             => /\ DOMAIN afterfork_registry \subseteq DOMAIN afterfork_registry'
                /\ \A i \in 1..Len(replayed) :
                      replayed[i] \in DOMAIN afterfork_registry
                         => \E j \in 1..Len(replayed') : replayed'[j] = replayed[i]
                /\ \A i1, i2 \in 1..Len(replayed), j1, j2 \in 1..Len(replayed') :
                      /\ i1 < i2
                      /\ replayed'[j1] = replayed[i1]
                      /\ replayed'[j2] = replayed[i2]
                      => j1 < j2]_vars

\* C13: the last replay was at least the second one: it invoked again the
\* entry of a lock that an earlier replay had invoked, and after it the entry
\* that earlier replay had registered; both are still registered
C13_Witness ==
    /\ Len(replayed) >= 2
    /\ replayed[1][2] = replayed[2][2]
    /\ replayed[1][3] = "ForkAwareThreadLock.__init__"
    /\ replayed[2][3] = "ForkAwareThreadLock.__init__"
    /\ replayed[1][1] < replayed[2][1]
    /\ \A i \in 1..Len(replayed) : replayed[i] \in DOMAIN afterfork_registry

----------------------------------------------------------------------------
\* Removal before the callback

\* The callback of the Finalize object self is being executed
Executing(self) ==
    \/ \E how \in {"run", "weakref"} : <<self, how>> \in inflight
    \/ pc = "callback" /\ items[idx][2] = self

\* C14: while the callback of a finalizer is being executed the finalizer
\* is not registered: still_active() is false, a run() of the same
\* finalizer from inside the callback returns None without starting the
\* callback, and a cancel() from inside the callback changes nothing.
C14_RemovedBeforeCallback ==
    /\ [](\A f \in DOMAIN finalizers : Executing(f) => ~still_active(f) /\ calls[f] = 1)
    /\ [][\A f \in DOMAIN finalizers :
            /\ ~Executing(f) /\ Executing(f)' => still_active(f) /\ ~still_active(f)'
            /\ Executing(f) /\ Call(f)
                  => /\ calls' = calls
                     /\ inflight' = inflight
                     /\ finalizer_registry' = finalizer_registry
                     /\ ret' = <<f, "None">>
            /\ Executing(f) /\ cancel(f) => UNCHANGED vars]_vars

\* C14: the callback of a finalizer is being executed by a run(), and a
\* run() of the same finalizer issued meanwhile has returned None
C14_Witness ==
    \E f \in DOMAIN finalizers :
        /\ <<f, "run">> \in inflight
        /\ ret = <<f, "None">>
        /\ calls[f] = 1
        /\ finalizers[f].key # None

----------------------------------------------------------------------------
\* The fields of a finalizer that is no longer registered

\* The registry holds no entry of the Finalize object self
Removed(self) == \A k \in DOMAIN finalizer_registry : finalizer_registry[k] # self

\* C15: whenever the entry of a finalizer has been removed from the
\* registry (and no callback of it is still being executed), its key, weak
\* reference, callback and arguments are all None.
C15_ClearedOnRemoval ==
    \A f \in DOMAIN finalizers :
        Removed(f) /\ ~Executing(f) => finalizers[f] = Cleared(finalizers[f])

----------------------------------------------------------------------------
\* The two passes of _exit_function over the children

\* C16: every daemonic child the second loop joins, or is about to join,
\* has been sent a terminate request.
C16_DaemonsTerminatedBeforeJoin ==
    /\ \A p \in pending : children[p].daemonic => children[p].terminated
    /\ \A p \in DOMAIN joined : joined[p].daemonic => joined[p].terminated

----------------------------------------------------------------------------
\* Liveness of the shutdown sequence

\* The second loop is waiting for the child p, which has not exited
Blocking(p) == p \in pending /\ children[p].alive

\* _exit_function has returned and left the registry empty
Finished == stage = "terminated" /\ DOMAIN finalizer_registry = {}

\* C17: if no child keeps the second loop waiting forever, _exit_function,
\* once started, reaches the end of its final sweep with an empty registry;
\* if a child of the second list never exits, the sequence stays in the
\* second loop forever and the final sweep never starts; and a child that
\* was joined had exited.
C17_ShutdownLiveness ==
    /\ (\A p \in 1..MaxChildren : []<>~Blocking(p))
          => (stage \notin {"running", "terminated"} ~> Finished)
    /\ \A p \in 1..MaxChildren :
          <>[]Blocking(p) => <>[](stage = "join") /\ [](stage \notin {"final", "terminated"})
    /\ [](\A p \in DOMAIN joined : ~joined[p].alive)
    /\ [](stage \in {"final", "terminated"} => pending = {})

\* C17: _exit_function has finished with an empty registry, after joining
\* a daemonic and a non-daemonic child and executing a finalizer of negative
\* priority in its final sweep
C17_Witness ==
    /\ Finished
    /\ \E p, q \in DOMAIN joined : joined[p].daemonic /\ ~joined[q].daemonic
    /\ \E f \in DOMAIN finalizers :
          /\ calls[f] = 1
          /\ finalizers[f].key = None
    /\ \E f \in DOMAIN finalizers : calls[f] = 0 /\ finalizers[f].key # None

----------------------------------------------------------------------------
\* A finalizer with neither a target nor a priority

\* C18: Finalize.__init__ with obj None and exitpriority None raises
\* before it changes anything, so the construction is never a step of the
\* program; and every registered finalizer has a priority or a target that
\* is still alive.
C18_TargetOrPriority ==
    /\ [](~ENABLED FinalizeInit(FALSE, None))
    /\ [](\A k \in DOMAIN finalizer_registry :
            /\ k = finalizers[finalizer_registry[k]].key
            /\ k[1] # None \/ finalizers[finalizer_registry[k]].weakref = <<"ref">>)

\* C18: there is room for another finalizer, which cannot be one with
\* neither target nor priority; the finalizer of priority None created so
\* far left the registry, executed, when its target died
C18_Witness ==
    /\ finalizer_counter < MaxFin
    /\ \E f \in DOMAIN finalizers :
          /\ finalizers[f].weakref = <<"dead">>
          /\ finalizers[f].key[1] = None
          /\ Removed(f)
          /\ calls[f] = 1

----------------------------------------------------------------------------
\* The list of a sweep

\* The Finalize objects in the list of the current sweep
Listed == {items[i][2] : i \in 1..Len(items)}

\* C19: the list of a sweep is fixed when the sweep starts.  The sweep
\* executes listed finalizers only, so never one created while it runs; a
\* listed finalizer that was run or cancelled meanwhile is skipped; and
\* when a sweep with no floor returns, the finalizers created while it ran
\* leave the registry without having been executed.
C19_SweepSnapshot ==
    /\ [](pc # "idle" => Executed \subseteq {items[i][1] : i \in 1..Len(items)})
    /\ [][/\ pc # "idle" /\ pc' # "idle" => items' = items
          /\ pc # "idle" /\ finalizer_counter' # finalizer_counter
                => finalizer_counter \notin Listed /\ Listed' = Listed
          /\ SweepCall
                => /\ \A f \in DOMAIN finalizers \ {items[idx][2]} : calls'[f] = calls[f]
                   /\ ~still_active(items[idx][2])
                         => calls' = calls /\ order' = order /\ idx' = idx + 1
          /\ FinalSweepReturns
                => \A k \in DOMAIN finalizer_registry :
                      /\ k \notin DOMAIN finalizer_registry'
                      /\ calls[k[2]] = 0 /\ calls'[k[2]] = 0]_vars

\* C19: a sweep with no floor has returned after executing a finalizer;
\* a finalizer with a priority that was created while the sweep ran is out
\* of the registry, never executed and never cancelled
C19_Witness ==
    /\ pc = "idle"
    /\ \E f, g \in DOMAIN finalizers :
          /\ f < g
          /\ calls[f] = 1
          /\ calls[g] = 0
          /\ finalizers[g].key # None
          /\ finalizers[g].key[1] # None
          /\ Removed(g)
          /\ finalizers[g].weakref # <<"dead">>

----------------------------------------------------------------------------
\* ForkAwareThreadLock across replays

\* The after-fork entries of the object obj
EntriesOf(obj) == {k \in DOMAIN afterfork_registry : k[2] = obj}

\* C20: a ForkAwareThreadLock has an unlocked lock and exactly one entry in
\* the after-fork registry, whatever the number of replays, and a replay
\* invokes its reinitializer once.
C20_OneEntryPerLock ==
    \A obj \in DOMAIN objects :
        objects[obj].cls = "ForkAwareThreadLock"
           => /\ objects[obj].state = "unlocked"
              /\ Cardinality(EntriesOf(obj)) = 1
              /\ Cardinality({i \in 1..Len(replayed) : replayed[i][2] = obj}) <= 1

====
